---------------------------- MODULE Spec2Model ----------------------------
(***************************************************************************)
(* A model of the pngme chunk codec: the 4-byte ChunkType                  *)
(* (src/src/chunk_type.rs) and the Chunk record with its CRC-32 checksum   *)
(* and wire framing (src/src/chunk.rs).                                    *)
(*                                                                         *)
(* Bytes are naturals 0..255.  A u32 is kept as a pair <<hi, lo>> of its   *)
(* two 16-bit halves, so that all 32 bits are kept exactly.                *)
(***************************************************************************)
EXTENDS Naturals, Sequences, FiniteSets

(***************************************************************************)
(* Bounds of the model.                                                    *)
(***************************************************************************)
\* longest string handed to the ChunkType constructors
MaxStr == 5
\* longest payload drawn from PayloadBytes (the test message is extra)
MaxPayload == 2

VARIABLES
    input,   \* the bytes / the text handed to a ChunkType constructor
    ctype,   \* what the last ChunkType constructor returned
    chunk,   \* the Chunk the caller holds, or NoChunk
    buf,     \* the byte buffer: output of as_bytes, input of try_from
    out,     \* what the last call of try_from / data_as_string returned
    last     \* the last operation

vars == <<input, ctype, chunk, buf, out, last>>

(***************************************************************************)
(* u8 / u32 arithmetic.                                                    *)
(***************************************************************************)
Byte == 0..255

RECURSIVE BitXor(_, _)
BitXor(a, b) ==
    IF a = 0 THEN b
    ELSE IF b = 0 THEN a
    ELSE ((a + b) % 2) + 2 * BitXor(a \div 2, b \div 2)

\* the u32 holding the natural n (n below 2^31)
U32Of(n) == <<n \div 65536, n % 65536>>

\* u32::to_be_bytes
to_be_bytes(u) == <<u[1] \div 256, u[1] % 256, u[2] \div 256, u[2] % 256>>

\* u32::from_be_bytes
from_be_bytes(bs) == <<bs[1] * 256 + bs[2], bs[3] * 256 + bs[4]>>

\* u <= n for a u32 u and a small natural n
U32AtMost(u, n) == u[1] = 0 /\ u[2] <= n

(***************************************************************************)
(* CRC-32/ISO-HDLC as the crc crate computes it for                        *)
(* Crc::<u32>::new(&CRC_32_ISO_HDLC): reflected polynomial 0xEDB88320,     *)
(* initial value 0xFFFFFFFF, final xor 0xFFFFFFFF, one table step a byte.  *)
(***************************************************************************)
PolyHi == 60856
PolyLo == 33568

\* u >> 1
Shr1(u) == <<u[1] \div 2, (u[1] % 2) * 32768 + u[2] \div 2>>

\* u >> 8
Shr8(u) == <<u[1] \div 256, (u[1] % 256) * 256 + u[2] \div 256>>

Xor32(u, v) == <<BitXor(u[1], v[1]), BitXor(u[2], v[2])>>

RECURSIVE CrcTableEntry(_, _)
CrcTableEntry(u, k) ==
    IF k = 0 THEN u
    ELSE CrcTableEntry(IF u[2] % 2 = 1 THEN Xor32(Shr1(u), <<PolyHi, PolyLo>>)
                                       ELSE Shr1(u), k - 1)

\* the entries lo..hi of the table, as a sequence
RECURSIVE CrcTableRange(_, _)
CrcTableRange(lo, hi) ==
    IF lo = hi THEN <<CrcTableEntry(<<0, lo>>, 8)>>
    ELSE CrcTableRange(lo, (lo + hi) \div 2) \o CrcTableRange((lo + hi) \div 2 + 1, hi)

\* the 256-entry table Crc::new builds; entry i is CrcTable[i + 1]
CrcTable == CrcTableRange(0, 255)

CrcUpdate(crc, b) == Xor32(CrcTable[BitXor(crc[2] % 256, b) + 1], Shr8(crc))

\* the register crc after digesting bytes[lo..hi], one half after the other;
\* the test on crc makes TLC evaluate the left half before the right one
RECURSIVE CrcDigest(_, _, _, _)
CrcDigest(crc, bytes, lo, hi) ==
    IF crc[1] > 65535 \/ lo > hi THEN crc
    ELSE IF lo = hi THEN CrcUpdate(crc, bytes[lo])
    ELSE CrcDigest(CrcDigest(crc, bytes, lo, (lo + hi) \div 2),
                   bytes, (lo + hi) \div 2 + 1, hi)

\* Crc::checksum
checksum(bytes) ==
    Xor32(CrcDigest(<<65535, 65535>>, bytes, 1, Len(bytes)), <<65535, 65535>>)


(***************************************************************************)
(* ChunkType (chunk_type.rs).                                              *)
(***************************************************************************)
\* u8::is_ascii_alphabetic
is_ascii_alphabetic(b) == (b >= 65 /\ b <= 90) \/ (b >= 97 /\ b <= 122)

\* the loop of try_from / from_str: the first non-alphabetic byte returns Err
AlphabeticGate(value) ==
    IF \E i \in 1..4 : ~is_ascii_alphabetic(value[i])
    THEN [kind |-> "Err", error |-> "IsNotAlphabetic"]
    ELSE [kind |-> "Ok", value |-> [code |-> value]]

\* the off-by-one gate that leaves the fourth byte unchecked
ChunkType_try_from_Mutant(value) ==
    IF \E i \in 1..3 : ~is_ascii_alphabetic(value[i])
    THEN [kind |-> "Err", error |-> "IsNotAlphabetic"]
    ELSE [kind |-> "Ok", value |-> [code |-> value]]

\* impl TryFrom<[u8; 4]> for ChunkType
ChunkType_try_from(value) == AlphabeticGate(value)

\* impl FromStr for ChunkType: s[0..4] panics on a slice shorter than 4 bytes,
\* before try_into()? can return anything
ChunkType_from_str(s) ==
    IF Len(s) < 4
    THEN [kind |-> "Panic"]
    ELSE AlphabeticGate(SubSeq(s, 1, 4))

\* ChunkType::bytes
ChunkType_bytes(t) == t.code

\* (byte >> 5) & 1
Bit5(byte) == (byte \div 32) % 2

is_critical(t) == Bit5(t.code[1]) = 0

is_public(t) == Bit5(t.code[2]) = 0

is_reserved_bit_valid(t) == Bit5(t.code[3]) = 0

\* the predicate with the comparison of is_critical copied over
is_safe_to_copy_Mutant(t) == Bit5(t.code[4]) = 0

is_safe_to_copy(t) == Bit5(t.code[4]) = 1

is_valid(t) == is_reserved_bit_valid(t)

(***************************************************************************)
(* Chunk (chunk.rs).                                                       *)
(***************************************************************************)
NoChunk == [kind |-> "None"]

NoResult == [op |-> "none", kind |-> "None"]

\* the checksum over type then data
Chunk_get_checksum_Mutant(chunk_data, chunk_type_code) ==
    checksum(chunk_type_code \o chunk_data)

\* the checksum that leaves the type code out
Chunk_get_checksum_NoType(chunk_data, chunk_type_code) == checksum(chunk_data)

\* Chunk::get_checksum: the type code is appended to the data
Chunk_get_checksum(chunk_data, chunk_type_code) ==
    checksum(chunk_data \o chunk_type_code)

\* Chunk::new
Chunk_new(chunk_type, chunk_data) ==
    [kind       |-> "Chunk",
     chunk_type |-> chunk_type,
     chunk_data |-> chunk_data,
     length     |-> U32Of(Len(chunk_data)),
     crc        |-> Chunk_get_checksum(chunk_data, ChunkType_bytes(chunk_type))]

\* the serialization with the length written little-endian
Chunk_as_bytes_Mutant(c) ==
    <<c.length[2] % 256, c.length[2] \div 256, c.length[1] % 256, c.length[1] \div 256>>
        \o ChunkType_bytes(c.chunk_type) \o c.chunk_data \o to_be_bytes(c.crc)

\* the serialization with the crc put before the payload
Chunk_as_bytes_CrcFirst(c) ==
    to_be_bytes(c.length) \o ChunkType_bytes(c.chunk_type)
        \o to_be_bytes(c.crc) \o c.chunk_data

\* Chunk::as_bytes
Chunk_as_bytes(c) ==
    to_be_bytes(c.length) \o ChunkType_bytes(c.chunk_type)
        \o c.chunk_data \o to_be_bytes(c.crc)

\* io::Read::bytes on a slice: every byte is read, none fails
ReadBytes(data) == [i \in 1..Len(data) |-> [ok |-> TRUE, val |-> data[i]]]

\* byte as char: the character U+0000..U+00FF with the byte's value
AsChar(byte) == byte

\* String::push: the character's UTF-8 encoding is appended
Utf8Encode(ch) ==
    IF ch < 128 THEN <<ch>> ELSE <<192 + (ch \div 64), 128 + (ch % 64)>>

\* the string after pushing the characters of reads lo..hi
RECURSIVE PushAll(_, _, _)
PushAll(reads, lo, hi) ==
    IF lo > hi THEN <<>>
    ELSE IF lo = hi THEN Utf8Encode(AsChar(reads[lo].val))
    ELSE PushAll(reads, lo, (lo + hi) \div 2) \o PushAll(reads, (lo + hi) \div 2 + 1, hi)

\* the accessor that hands the payload bytes over as the string's bytes
Chunk_data_as_string_Mutant(c) ==
    [op |-> "data_as_string", kind |-> "Ok", string |-> c.chunk_data]

\* Chunk::data_as_string
Chunk_data_as_string(c) ==
    LET reads == ReadBytes(c.chunk_data) IN
    IF \E i \in 1..Len(reads) : ~reads[i].ok
    THEN [op |-> "data_as_string", kind |-> "Err", error |-> "DecodeError"]
    ELSE [op |-> "data_as_string", kind |-> "Ok",
          string |-> PushAll(reads, 1, Len(reads))]

\* the parse that asks for the 8 header bytes only and takes the rest as the
\* payload, unchecked
Chunk_try_from_Unchecked(bytes) ==
    IF Len(bytes) < 8
    THEN [op |-> "try_from", kind |-> "Err", error |-> "TooShort"]
    ELSE
      LET ty == ChunkType_try_from(SubSeq(bytes, 5, 8)) IN
      IF ty.kind # "Ok"
      THEN [op |-> "try_from", kind |-> "Err", error |-> "NotAlphabetic"]
      ELSE [op |-> "try_from", kind |-> "Ok",
            value |-> [kind       |-> "Chunk",
                       chunk_type |-> ty.value,
                       chunk_data |-> SubSeq(bytes, 9, Len(bytes)),
                       length     |-> from_be_bytes(SubSeq(bytes, 1, 4)),
                       crc        |-> <<0, 0>>]]

\* parse (Chunk::try_from), in the steps of its contract
Chunk_try_from(bytes) ==
    IF Len(bytes) < 12
    THEN [op |-> "try_from", kind |-> "Err", error |-> "TooShort"]
    ELSE
      LET length == from_be_bytes(SubSeq(bytes, 1, 4))
          ty     == ChunkType_try_from(SubSeq(bytes, 5, 8))
      IN
      IF ty.kind # "Ok"
      THEN [op |-> "try_from", kind |-> "Err", error |-> "NotAlphabetic"]
      ELSE IF ~U32AtMost(length, Len(bytes) - 12)
      THEN [op |-> "try_from", kind |-> "Err", error |-> "Truncated"]
      ELSE
        LET n    == length[2]
            data == SubSeq(bytes, 9, 8 + n)
            crc  == from_be_bytes(SubSeq(bytes, 9 + n, 12 + n))
        IN
        IF Chunk_get_checksum(data, ChunkType_bytes(ty.value)) # crc
        THEN [op |-> "try_from", kind |-> "Err", error |-> "ChecksumMismatch"]
        ELSE [op |-> "try_from", kind |-> "Ok",
              value |-> [kind       |-> "Chunk",
                         chunk_type |-> ty.value,
                         chunk_data |-> data,
                         length     |-> length,
                         crc        |-> crc]]


(***************************************************************************)
(* Inputs.                                                                 *)
(***************************************************************************)
\* the bytes on both sides of each edge of A-Z and a-z
ByteSample == {64, 65, 90, 91, 96, 97, 122, 123}

\* "RuSt"
RuSt == <<82, 117, 83, 116>>

\* the type codes of the tests, and codes with a byte outside ASCII
TestCodes ==
    {RuSt, <<82, 117, 115, 116>>, <<114, 117, 83, 116>>, <<82, 85, 83, 116>>,
     <<82, 117, 83, 84>>, <<82, 117, 49, 116>>, <<82, 117, 83, 244>>,
     <<193, 117, 83, 116>>, <<82, 117, 83, 0>>}

TypeInputs == UNION {[1..n -> ByteSample] : n \in 0..MaxStr} \cup TestCodes

\* a text is valid UTF-8; the texts of the model are ASCII
IsText(s) == \A i \in 1..Len(s) : s[i] < 128

\* "RuSt", "aAzZ", "Ru1t" and "Ru"
SessionInputs == {RuSt, <<97, 65, 122, 90>>, <<82, 117, 49, 116>>, <<82, 117>>}

\* "This is where your secret message will be!"
TestMessage ==
    <<84, 104, 105, 115, 32, 105, 115, 32, 119, 104, 101, 114, 101, 32, 121,
      111, 117, 114, 32, 115, 101, 99, 114, 101, 116, 32, 109, 101, 115, 115,
      97, 103, 101, 32, 119, 105, 108, 108, 32, 98, 101, 33>>

\* 2882656334 = 43985 * 65536 + 55374, the crc of the tests
TestCrc == <<43985, 55374>>

\* 2882656333, the crc of test_invalid_chunk_from_bytes
TestBadCrc == <<43985, 55373>>

\* an ASCII byte and a byte above 127
PayloadBytes == {72, 233}

ShortPayloads == UNION {[1..n -> PayloadBytes] : n \in 0..MaxPayload}

Payloads == ShortPayloads \cup {TestMessage}

\* a wire buffer put together field by field, as the tests do
Frame(length, code, body, crc) ==
    to_be_bytes(length) \o code \o body \o to_be_bytes(crc)

\* the buffers of testing_chunk / test_valid_chunk_from_bytes and of
\* test_invalid_chunk_from_bytes
TestWire == Frame(U32Of(42), RuSt, TestMessage, TestCrc)

TestBadWire == Frame(U32Of(42), RuSt, TestMessage, TestBadCrc)

\* buffers from outside: any declared length against any body, a good or a
\* bad type code, a matching or another crc, with or without a trailing byte
\* the crc fields tried for a code and a body: over data then type, over
\* type then data, and zero
WireCrcs(code, body) == {checksum(body \o code), checksum(code \o body), <<0, 0>>}

WireFields ==
    {<<code, body>> : code \in {RuSt, <<82, 117, 49, 116>>}, body \in ShortPayloads}

WireFrames ==
    UNION {{Frame(U32Of(n), f[1], f[2], crc) \o tail :
               n \in 0..(MaxPayload + 1), crc \in WireCrcs(f[1], f[2]),
               tail \in {<<>>, <<0>>}} : f \in WireFields}
    \cup {Frame(<<65535, 65535>>, RuSt, <<72>>, checksum(<<72>> \o RuSt)),
          TestWire, TestBadWire}

(***************************************************************************)
(* The state machine: one call of the library per step.                    *)
(***************************************************************************)
\* a panic ends the program
Aborted == ctype.kind = "Panic"

Start ==
    /\ ctype = [kind |-> "None"]
    /\ chunk = NoChunk
    /\ buf = <<>>
    /\ out = NoResult
    /\ last = "init"

Init == input \in SessionInputs /\ Start

TypeInit == input \in TypeInputs /\ Start

\* ChunkType::try_from(input), before any Chunk is made
FromBytes ==
    /\ ~Aborted
    /\ chunk = NoChunk /\ buf = <<>>
    /\ Len(input) = 4
    /\ ctype' = ChunkType_try_from(input)
    /\ last' = "from_bytes"
    /\ UNCHANGED <<input, chunk, buf, out>>

\* ChunkType::from_str(input), before any Chunk is made
FromStr ==
    /\ ~Aborted
    /\ chunk = NoChunk /\ buf = <<>>
    /\ IsText(input)
    /\ ctype' = ChunkType_from_str(input)
    /\ last' = "from_str"
    /\ UNCHANGED <<input, chunk, buf, out>>

\* Chunk::new(chunk_type, payload), with the ChunkType just made
New ==
    /\ ~Aborted
    /\ chunk = NoChunk /\ buf = <<>>
    /\ ctype.kind = "Ok"
    /\ \E payload \in Payloads : chunk' = Chunk_new(ctype.value, payload)
    /\ last' = "new"
    /\ UNCHANGED <<input, ctype, buf, out>>

\* chunk.as_bytes()
AsBytes ==
    /\ ~Aborted
    /\ chunk # NoChunk
    /\ buf' = Chunk_as_bytes(chunk)
    /\ out' = NoResult
    /\ last' = "as_bytes"
    /\ UNCHANGED <<input, ctype, chunk>>

\* one byte of the serialized chunk is changed by one, up or down
Corrupt ==
    /\ ~Aborted
    /\ chunk # NoChunk
    /\ buf = Chunk_as_bytes(chunk)
    /\ \E i \in 1..Len(buf), d \in {1, 255} :
          buf' = [buf EXCEPT ![i] = (@ + d) % 256]
    /\ out' = NoResult
    /\ last' = "corrupt"
    /\ UNCHANGED <<input, ctype, chunk>>

\* the serialized chunk loses its end
Truncate ==
    /\ ~Aborted
    /\ chunk # NoChunk
    /\ buf = Chunk_as_bytes(chunk)
    /\ \E n \in 0..(Len(buf) - 1) : buf' = SubSeq(buf, 1, n)
    /\ out' = NoResult
    /\ last' = "truncate"
    /\ UNCHANGED <<input, ctype, chunk>>

\* a buffer arrives from outside, before any Chunk is made
Receive ==
    /\ ~Aborted
    /\ chunk = NoChunk /\ buf = <<>>
    /\ \E frame \in WireFrames : buf' = frame
    /\ chunk' = NoChunk
    /\ out' = NoResult
    /\ last' = "receive"
    /\ UNCHANGED <<input, ctype>>

\* Chunk::try_from(buf)
TryFrom ==
    /\ ~Aborted
    /\ last # "init"
    /\ out' = Chunk_try_from(buf)
    /\ last' = "try_from"
    /\ UNCHANGED <<input, ctype, chunk, buf>>

\* the caller keeps the parsed Chunk
Adopt ==
    /\ ~Aborted
    /\ out.op = "try_from" /\ out.kind = "Ok"
    /\ chunk' = out.value
    /\ last' = "adopt"
    /\ UNCHANGED <<input, ctype, buf, out>>

\* chunk.data_as_string()
DataAsString ==
    /\ ~Aborted
    /\ chunk # NoChunk
    /\ out' = Chunk_data_as_string(chunk)
    /\ last' = "data_as_string"
    /\ UNCHANGED <<input, ctype, chunk, buf>>

Next ==
    \/ FromBytes
    \/ FromStr
    \/ New
    \/ AsBytes
    \/ Corrupt
    \/ Truncate
    \/ Receive
    \/ TryFrom
    \/ Adopt
    \/ DataAsString

Spec == Init /\ [][Next]_vars

TypeNext == FromBytes \/ FromStr

TypeSpec == TypeInit /\ [][TypeNext]_vars


(***************************************************************************)
(* Vocabulary of the properties.                                           *)
(***************************************************************************)
Uppercase == 65..90

Lowercase == 97..122

Letters == Uppercase \cup Lowercase

\* the fields a buffer of at least 12 bytes declares
DeclaredLength(b) == <<b[1] * 256 + b[2], b[3] * 256 + b[4]>>

DeclaredCode(b) == <<b[5], b[6], b[7], b[8]>>

\* the buffer holds the 12 + declared-length bytes of its framing
FramingComplete(b) ==
    /\ Len(b) >= 12
    /\ DeclaredLength(b)[1] = 0
    /\ 12 + DeclaredLength(b)[2] <= Len(b)

DeclaredPayload(b) == [i \in 1..DeclaredLength(b)[2] |-> b[8 + i]]

DeclaredCrc(b) ==
    LET n == DeclaredLength(b)[2] IN
    <<b[9 + n] * 256 + b[10 + n], b[11 + n] * 256 + b[12 + n]>>

\* the framing is complete and the declared crc is not the recomputed one
CrcDiffers(b) ==
    /\ FramingComplete(b)
    /\ DeclaredCrc(b) # checksum(DeclaredPayload(b) \o DeclaredCode(b))

\* b is a with exactly one byte changed, a byte of the trailing crc field
CrcFieldTampered(a, b) ==
    /\ Len(b) = Len(a)
    /\ \E i \in (Len(a) - 3)..Len(a) :
          /\ b[i] # a[i]
          /\ \A j \in 1..Len(a) : j # i => b[j] = a[j]

\* the characters of a UTF-8 string; 1114112 stands for a malformed one
Utf8Starts(s) == {k \in 1..Len(s) : s[k] < 128 \/ s[k] >= 192}

Utf8CharAt(s, k) ==
    IF s[k] < 128 THEN s[k]
    ELSE IF s[k] < 224 /\ k < Len(s) /\ s[(IF k < Len(s) THEN k + 1 ELSE k)] \in 128..191
    THEN (s[k] - 192) * 64 + (s[k + 1] - 128)
    ELSE 1114112

Utf8Chars(s) ==
    IF Len(s) > 0 /\ s[1] \in 128..191 THEN <<1114112>>
    ELSE [i \in 1..Cardinality(Utf8Starts(s)) |->
            Utf8CharAt(s, CHOOSE k \in Utf8Starts(s) :
                             Cardinality({j \in Utf8Starts(s) : j <= k}) = i)]

\* a value a char can hold
IsCharValue(v) == v < 55296 \/ (v > 57343 /\ v < 1114112)

(***************************************************************************)
(* The claims.                                                             *)
(***************************************************************************)

\* C1, as stated: whenever the crc declared in the buffer differs from the
\* recomputed checksum, parse fails with ChecksumMismatch.
C1_MismatchIsChecksumMismatch ==
    (last = "try_from" /\ CrcDiffers(buf))
        => (out.kind = "Err" /\ out.error = "ChecksumMismatch")

\* C1, amended: whenever the framing is complete and the declared crc differs
\* from the checksum recomputed over payload then type code, parse returns no
\* Chunk: it fails with ChecksumMismatch when the type code is alphabetic and
\* with NotAlphabetic otherwise.  Changing one byte of the trailing crc field
\* of a serialized Chunk makes parse fail with ChecksumMismatch.
C1_MismatchNeverParses ==
    last = "try_from" =>
        /\ CrcDiffers(buf) =>
              /\ out.kind = "Err"
              /\ out.error = IF \A i \in 1..4 : DeclaredCode(buf)[i] \in Letters
                             THEN "ChecksumMismatch" ELSE "NotAlphabetic"
        /\ (chunk # NoChunk /\ CrcFieldTampered(Chunk_as_bytes(chunk), buf)) =>
              (out.kind = "Err" /\ out.error = "ChecksumMismatch")

\* C1, witness: the parse of a serialized Chunk with one byte of its crc
\* field changed has failed with ChecksumMismatch.
C1_Witness ==
    /\ last = "try_from"
    /\ chunk # NoChunk
    /\ CrcFieldTampered(Chunk_as_bytes(chunk), buf)
    /\ CrcDiffers(buf)
    /\ out.kind = "Err" /\ out.error = "ChecksumMismatch"

\* C2: parsing the serialization of a Chunk succeeds and yields a Chunk with
\* the same chunk_type, data, length and crc.
C2_RoundTrip ==
    (last = "try_from" /\ chunk # NoChunk /\ buf = Chunk_as_bytes(chunk)) =>
        /\ out.kind = "Ok"
        /\ out.value.chunk_type = chunk.chunk_type
        /\ out.value.chunk_data = chunk.chunk_data
        /\ out.value.length = chunk.length
        /\ out.value.crc = chunk.crc

\* C2, witness: the serialization of a Chunk::new with the empty payload has
\* been parsed back.
C2_Witness ==
    /\ last = "try_from"
    /\ chunk # NoChunk
    /\ chunk.chunk_data = <<>>
    /\ buf = Chunk_as_bytes(chunk)
    /\ Len(buf) = 12
    /\ out.kind = "Ok"

\* the invariant of one Chunk
ChunkInvariant(c) ==
    /\ c.length = <<0, Len(c.chunk_data)>>
    /\ c.crc = checksum(c.chunk_data \o c.chunk_type.code)

C4_TestVector ==
    (chunk # NoChunk /\ last = "new" /\ chunk.chunk_type.code = RuSt
        /\ chunk.chunk_data = TestMessage)
      => /\ chunk.length = <<0, 42>>
         /\ chunk.crc = TestCrc
         /\ chunk.crc = DeclaredCrc(TestWire)

\* C5: from_bytes succeeds exactly when the 4 bytes are ASCII letters; then
\* raw_bytes is the input, otherwise the result is IsNotAlphabetic and holds
\* no ChunkType.  Every ChunkType has a code of 4 letters.
C5_AlphabeticGate ==
    /\ last = "from_bytes" =>
          /\ (ctype.kind = "Ok") <=> (\A i \in 1..4 : input[i] \in Letters)
          /\ ctype.kind = "Ok" => ChunkType_bytes(ctype.value) = input
          /\ ctype.kind # "Ok" =>
                ctype = [kind |-> "Err", error |-> "IsNotAlphabetic"]
    /\ ctype.kind = "Ok" =>
          /\ Len(ctype.value.code) = 4
          /\ \A i \in 1..4 : ctype.value.code[i] \in Letters

\* C5, witness: from_bytes has rejected an array whose only non-letter is its
\* last byte.
C5_Witness ==
    /\ last = "from_bytes"
    /\ \A i \in 1..3 : input[i] \in Letters
    /\ input[4] = 123
    /\ ctype.kind = "Err"

\* C6: from_str on at least 4 bytes gives what from_bytes gives on the first
\* 4 bytes; on fewer than 4 bytes it returns an error value.
C6_FromStrReturns ==
    last = "from_str" =>
        IF Len(input) >= 4
        THEN ctype = ChunkType_try_from(SubSeq(input, 1, 4))
        ELSE ctype.kind = "Err"

\* C7: the property predicates are the letter cases: critical, public and
\* reserved-bit-valid for an uppercase first, second and third letter,
\* safe-to-copy for a lowercase fourth letter.
C7_BitProperties ==
    ctype.kind = "Ok" =>
        LET t == ctype.value IN
        /\ is_critical(t) <=> t.code[1] \in Uppercase
        /\ is_public(t) <=> t.code[2] \in Uppercase
        /\ is_reserved_bit_valid(t) <=> t.code[3] \in Uppercase
        /\ is_safe_to_copy(t) <=> t.code[4] \in Lowercase

\* C7, witness: the ChunkType "RuSt" exists; it is critical, not public,
\* reserved-bit-valid and safe to copy.
C7_Witness ==
    /\ ctype.kind = "Ok"
    /\ ctype.value.code = RuSt
    /\ is_critical(ctype.value)
    /\ ~is_public(ctype.value)
    /\ is_reserved_bit_valid(ctype.value)
    /\ is_safe_to_copy(ctype.value)

\* the layout of the buffer as_bytes has just returned
AsBytesLayout ==
    last = "as_bytes" =>
        LET n == Len(chunk.chunk_data) IN
        /\ chunk.length[1] = 0 /\ Len(buf) = 12 + chunk.length[2]
        /\ <<buf[1] * 256 + buf[2], buf[3] * 256 + buf[4]>> = chunk.length
        /\ <<buf[5], buf[6], buf[7], buf[8]>> = chunk.chunk_type.code
        /\ \A i \in 1..n : buf[8 + i] = chunk.chunk_data[i]
        /\ <<buf[9 + n] * 256 + buf[10 + n], buf[11 + n] * 256 + buf[12 + n]>>
              = chunk.crc

\* C8: as_bytes returns 12 + length bytes: the length big-endian, the 4 type
\* bytes, the payload in order, the crc big-endian; the Chunk is unchanged.
C8_AsBytesLayout ==
    /\ []AsBytesLayout
    /\ [][last' = "as_bytes" => chunk' = chunk]_vars

\* C8, witness: a Chunk with a 2-byte payload of different bytes has been
\* serialized to 14 bytes.
C8_Witness ==
    /\ last = "as_bytes"
    /\ Len(chunk.chunk_data) = 2
    /\ chunk.chunk_data[1] # chunk.chunk_data[2]
    /\ Len(buf) = 14

\* C9, as stated: a buffer shorter than 12 bytes fails with TooShort, and a
\* longer one holding fewer than 12 + declared-length bytes fails with
\* TooShort / Truncated.
C9_ShortIsTooShort ==
    last = "try_from" =>
        /\ Len(buf) < 12 => (out.kind = "Err" /\ out.error = "TooShort")
        /\ (Len(buf) >= 12 /\ ~FramingComplete(buf)) =>
              (out.kind = "Err" /\ out.error \in {"TooShort", "Truncated"})

\* C9, amended: parse returns no Chunk for a buffer that holds fewer bytes
\* than its framing needs: under 12 bytes it fails with TooShort; from 12
\* bytes on, with fewer than 12 + declared-length bytes, it fails with
\* TooShort / Truncated when the type code is alphabetic and with
\* NotAlphabetic otherwise.
C9_ShortNeverParses ==
    last = "try_from" =>
        /\ Len(buf) < 12 => (out.kind = "Err" /\ out.error = "TooShort")
        /\ (Len(buf) >= 12 /\ ~FramingComplete(buf)) =>
              /\ out.kind = "Err"
              /\ IF \A i \in 1..4 : DeclaredCode(buf)[i] \in Letters
                 THEN out.error \in {"TooShort", "Truncated"}
                 ELSE out.error = "NotAlphabetic"

\* C9, witness: a buffer of at least 12 bytes that declares more payload
\* than it holds has been rejected as truncated.
C9_Witness ==
    /\ last = "try_from"
    /\ Len(buf) >= 12
    /\ ~FramingComplete(buf)
    /\ out.kind = "Err" /\ out.error = "Truncated"

\* C10: data_as_string returns the payload as text, one character per byte,
\* exactly when every byte maps to a character (the test message gives its
\* own text); the result is a function of the payload alone.
C10_DataAsString ==
    last = "data_as_string" =>
        /\ (out.kind = "Ok") <=>
              (\A i \in 1..Len(chunk.chunk_data) : IsCharValue(chunk.chunk_data[i]))
        /\ out.kind = "Ok" => Utf8Chars(out.string) = chunk.chunk_data
        /\ chunk.chunk_data = TestMessage => out.string = TestMessage

\* C10, witness: a payload with a byte above 127 has been returned as text.
C10_Witness ==
    /\ last = "data_as_string"
    /\ \E i \in 1..Len(chunk.chunk_data) : chunk.chunk_data[i] > 127
    /\ out.kind = "Ok"
    /\ Len(out.string) > Len(chunk.chunk_data)

=============================================================================
